---- MODULE Spec2Model ----
(***************************************************************************)
(* Model of the MARCI ISIS pipeline driver in its three iterations:        *)
(*   version 1  marci_isis_processing.py     (run_command raises)          *)
(*   version 2  marci_isis_processing_v2.py  (run_command returns a bool)  *)
(*   version 3  marci_isis_processing_v3.py  (argparse, projection preset) *)
(*                                                                         *)
(* A file name is a sequence of tokens; the tokens are the pieces of text  *)
(* the globs and the suffix manipulations of the code tell apart, so that  *)
(* glob matching, Path.stem, str.replace and sorted() are computed on the  *)
(* names exactly as the code computes them on the strings.                 *)
(***************************************************************************)
EXTENDS Integers, Sequences, FiniteSets, TLC

VARIABLES
  version,              \* which iteration of the script runs
  cfg,                  \* the command line
  delete_intermediate,  \* the flag process_images is called with
  files,                \* the names in the input directory
  initFiles,            \* the names in it when the process started
  snapshot,             \* the names in it when the current stage globbed
  pc, stage,            \* position: main, glob, loop, done, exit, abort
  matched, idx,         \* the sorted list of the current loop, its position
  log,                  \* the external invocations made, in order
  exitCode,             \* -1 while running
  faults                \* loop iterations so far with a failed or short invocation

vars == <<version, cfg, delete_intermediate, files, initFiles, snapshot,
          pc, stage, matched, idx, log, exitCode, faults>>

\* ------------------------------------------------------------------ bounds
\* most loop iterations of one run in which the external tool fails or writes
\* less than its whole output
MaxFaults == 1
\* most band cubes one explode invocation writes
MaxBands == 1
\* most files in the directory when the run starts
MaxInitFiles == 2

\* ------------------------------------------------------------- file names
\* tokens in the order of their text under Python's str comparison
TokOrder ==
  <<".IMG", ".band", ".cub", ".lev1", ".lev2", ".map", ".png",
    "1", "2", "3", "A", "B", "eqc", "polar", "simplecyl">>

TokRank(t) == CHOOSE i \in 1..Len(TokOrder) : TokOrder[i] = t

IsDotTok(t) == t \in {".IMG", ".band", ".cub", ".lev1", ".lev2", ".map", ".png"}

BandTok(n) == <<"1", "2", "3">>[n]

\* a < b as Python compares the two names (str comparison, shorter prefix first)
RECURSIVE NameLess(_, _)
NameLess(a, b) ==
  IF a = <<>> THEN b # <<>>
  ELSE IF b = <<>> THEN FALSE
  ELSE IF Head(a) = Head(b) THEN NameLess(Tail(a), Tail(b))
  ELSE TokRank(Head(a)) < TokRank(Head(b))

\* sorted(...) of a set of paths of one directory: descending order is the
\* slip the ordering claims must notice
RECURSIVE sortedDescending(_)
sortedDescending(S) ==
  IF S = {} THEN <<>>
  ELSE LET m == CHOOSE x \in S : \A y \in S \ {x} : NameLess(y, x)
       IN <<m>> \o sortedDescending(S \ {m})

RECURSIVE sorted(_)
sorted(S) ==
  IF S = {} THEN <<>>
  ELSE LET m == CHOOSE x \in S : \A y \in S \ {x} : NameLess(x, y)
       IN <<m>> \o sorted(S \ {m})

\* Path.stem: the name without its last suffix; a leading dot is no suffix
stem(name) ==
  LET dots == {i \in 2..Len(name) : IsDotTok(name[i])}
  IN IF dots = {} THEN name
     ELSE LET last == CHOOSE i \in dots : \A j \in dots : j <= i
          IN SubSeq(name, 1, last - 1)

\* str.replace(tok, ""): every occurrence of the text tok is removed
replace(s, tok) == SelectSeq(s, LAMBDA t : t # tok)

EndsWith(name, suffix) ==
  /\ Len(name) >= Len(suffix)
  /\ SubSeq(name, Len(name) - Len(suffix) + 1, Len(name)) = suffix

\* pathlib glob of one pattern against one file name
Match(pattern, name) ==
  CASE pattern = "*.IMG"       -> EndsWith(name, <<".IMG">>)
    [] pattern = "*.cub"       -> EndsWith(name, <<".cub">>)
    [] pattern = "*.lev1.cub"  -> EndsWith(name, <<".lev1", ".cub">>)
    [] pattern = "*.band*.cub" -> /\ EndsWith(name, <<".cub">>)
                                  /\ \E i \in 1..(Len(name) - 1) : name[i] = ".band"
    [] pattern = "*.lev2.cub"  -> EndsWith(name, <<".lev2", ".cub">>)

glob(pattern, dir) == {f \in dir : Match(pattern, f)}

\* --------------------------------------------------------- configuration
PROJECTION_PRESETS == {"simplecyl", "polar", "eqc"}

Versions == {1, 2, 3}

\* the command lines main() can be started with
Configs(v) ==
  [opt : {"map"}, mapIsFile : BOOLEAN, projection : {"none"}, delete : {0, 1, 2}]
  \cup [opt : {"none"}, mapIsFile : {FALSE}, projection : {"none"}, delete : {0}]
  \cup (IF v = 3
        THEN [opt : {"projection"}, mapIsFile : {FALSE},
              projection : {"polar", "bogus"}, delete : {0, 1, 2}]
        ELSE {})

\* parse_args of version 3: argparse ends the process with status 2 when the
\* group is missing or a value is outside its choices
ArgparseRejects(c) ==
  \/ c.opt = "none"
  \/ c.opt = "projection" /\ c.projection \notin PROJECTION_PRESETS
  \/ c.delete \notin {0, 1}

\* the status main() exits with before any stage, or -1 when it goes on
ConfigExit(v, c) ==
  IF v = 3
  THEN IF ArgparseRejects(c) THEN 2
       ELSE IF c.opt = "map" /\ ~c.mapIsFile THEN 1
       ELSE IF c.opt = "projection" /\ c.projection \notin PROJECTION_PRESETS THEN 1
       ELSE -1
  ELSE IF c.opt # "map" THEN 1
       ELSE IF ~c.mapIsFile THEN 1
       ELSE IF c.delete \notin {0, 1} THEN 1
       ELSE -1

\* create_projection_map writes <projection>.map into the input directory
MapFile(c) == <<c.projection, ".map">>

\* ------------------------------------------------------------- the stages
StageCmd(s) ==
  <<"marci2isis", "spiceinit", "marcical", "explode", "cam2map", "isis2std">>[s]

StageGlob(s) ==
  <<"*.IMG", "*.cub", "*.cub", "*.lev1.cub", "*.band*.cub", "*.lev2.cub">>[s]

\* the to= path of the invocation of stage s on file f
OutPath(s, f) ==
  CASE s = 1 -> stem(f) \o <<".cub">>
    [] s = 2 -> <<>>
    [] s = 3 -> stem(f) \o <<".lev1", ".cub">>
    [] s = 4 -> replace(stem(f), ".lev1")
    [] s = 5 -> replace(stem(f), ".band") \o <<".lev2", ".cub">>
    [] s = 6 -> replace(stem(f), ".lev2")

\* the files the external command of stage s writes when it does all its work
Expected(s, f) ==
  CASE s \in {1, 3, 5} -> {OutPath(s, f)}
    [] s = 2 -> {}
    [] s = 4 -> {OutPath(4, f) \o <<".band", BandTok(n), ".cub">> : n \in 1..MaxBands}
    [] s = 6 -> {OutPath(6, f) \o <<".png">>}

\* run_command raises in version 1 and returns False in versions 2 and 3;
\* without the except clause it would raise in every version
RaisesUncaught(v, ok) == ~ok

Raises(v, ok) == v = 1 /\ ~ok

Invocation(s, f, web, ok) ==
  [cmd |-> StageCmd(s), from |-> f, to |-> OutPath(s, f), web |-> web, ok |-> ok]

\* the spiceinit invocations of one cube: version 1 asks for web=true at once;
\* versions 2 and 3 call try_spiceinit_with_web when the local one returned
\* False.  Falling back when it returned True is the slip.
SpiceInvocationsInverted(v, f, ok, webOk) ==
  IF v = 1 THEN <<Invocation(2, f, TRUE, ok)>>
  ELSE IF ~ok THEN <<Invocation(2, f, FALSE, FALSE)>>
  ELSE <<Invocation(2, f, FALSE, TRUE), Invocation(2, f, TRUE, webOk)>>

SpiceInvocations(v, f, ok, webOk) ==
  IF v = 1 THEN <<Invocation(2, f, TRUE, ok)>>
  ELSE IF ok THEN <<Invocation(2, f, FALSE, TRUE)>>
  ELSE <<Invocation(2, f, FALSE, FALSE), Invocation(2, f, TRUE, webOk)>>

\* the unlink conditions of the stages, reached only when run_command returned.
\* Variants with one condition changed: the flag ignored, the band cube never
\* unlinked, the explode input unlinked only when the to= path exists.
UnlinkIgnoresFlag(s, v, ok, outExists, del) ==
  CASE s \in {1, 3} -> (v = 1 \/ ok) /\ outExists
    [] s = 4        -> (v = 1 \/ ok)
    [] s = 5        -> outExists
    [] OTHER        -> FALSE

UnlinkKeepsBand(s, v, ok, outExists, del) ==
  CASE s \in {1, 3} -> (v = 1 \/ ok) /\ outExists /\ del # 0
    [] s = 4        -> (v = 1 \/ ok) /\ del # 0
    [] OTHER        -> FALSE

UnlinkExplodeChecksOutput(s, v, ok, outExists, del) ==
  CASE s \in {1, 3, 4} -> (v = 1 \/ ok) /\ outExists /\ del # 0
    [] s = 5           -> outExists /\ del # 0
    [] OTHER           -> FALSE

Unlink(s, v, ok, outExists, del) ==
  CASE s \in {1, 3} -> (v = 1 \/ ok) /\ outExists /\ del # 0
    [] s = 4        -> (v = 1 \/ ok) /\ del # 0
    [] s = 5        -> outExists /\ del # 0
    [] OTHER        -> FALSE

\* the for loop walks the list that sorted() built when the stage began;
\* a loop that enumerated the directory again would be the slip
AdvanceRescan(s, list, i, dir) ==
  LET fresh == glob(StageGlob(s), dir) \ {list[k] : k \in 1..Len(list)}
  IN [list |-> SubSeq(list, 1, i) \o SubSeq(list, i + 1, Len(list)) \o sorted(fresh),
      i |-> i + 1]

Advance(s, list, i, dir) == [list |-> list, i |-> i + 1]

\* ------------------------------------------------------------ the machine
InitUniverse ==
  {<<"A", ".IMG">>, <<"B", ".IMG">>, <<"A", ".cub">>, <<"A", ".lev1", ".cub">>}

Init ==
  /\ version \in Versions
  /\ cfg \in Configs(version)
  /\ initFiles \in {S \in SUBSET InitUniverse : Cardinality(S) <= MaxInitFiles}
  /\ files = initFiles
  /\ snapshot = {}
  /\ delete_intermediate = 0
  /\ pc = "main"
  /\ stage = 0
  /\ matched = <<>>
  /\ idx = 1
  /\ log = <<>>
  /\ exitCode = -1
  /\ faults = 0

\* main(): validation of the command line, then process_images
MainRejects ==
  /\ pc = "main"
  /\ ConfigExit(version, cfg) # -1
  /\ pc' = "exit"
  /\ exitCode' = ConfigExit(version, cfg)
  /\ UNCHANGED <<version, cfg, delete_intermediate, files, initFiles, snapshot,
                 stage, matched, idx, log, faults>>

MainAccepts ==
  /\ pc = "main"
  /\ ConfigExit(version, cfg) = -1
  /\ delete_intermediate' = cfg.delete
  /\ files' = IF cfg.opt = "projection" THEN files \cup {MapFile(cfg)} ELSE files
  /\ pc' = "glob"
  /\ stage' = 1
  /\ UNCHANGED <<version, cfg, initFiles, snapshot, matched, idx, log,
                 exitCode, faults>>

\* for x in sorted(input_dir.glob(pattern)): the list is built once
BeginStage ==
  /\ pc = "glob"
  /\ matched' = sorted(glob(StageGlob(stage), files))
  /\ snapshot' = files
  /\ idx' = 1
  /\ pc' = "loop"
  /\ UNCHANGED <<version, cfg, delete_intermediate, files, initFiles,
                 stage, log, exitCode, faults>>

\* the loop of a stage is exhausted: next stage, or the end of process_images
EndStage ==
  /\ pc = "loop"
  /\ idx > Len(matched)
  /\ IF stage < 6
     THEN /\ stage' = stage + 1
          /\ pc' = "glob"
          /\ UNCHANGED exitCode
     ELSE /\ pc' = "done"
          /\ exitCode' = 0
          /\ UNCHANGED stage
  /\ UNCHANGED <<version, cfg, delete_intermediate, files, initFiles, snapshot,
                 matched, idx, log, faults>>

\* one iteration of the loop of stage s (1, 3, 4, 5 or 6): one invocation,
\* whose outcome (exit status, files written) is the external tool's choice
FileStep(s) ==
  /\ pc = "loop"
  /\ stage = s
  /\ idx <= Len(matched)
  /\ LET f == matched[idx]
     IN \E ok \in BOOLEAN, made \in SUBSET Expected(s, f) :
          LET dir == files \cup made
              fault == IF ~ok \/ made # Expected(s, f) THEN 1 ELSE 0
              adv == Advance(s, matched, idx, dir)
          IN /\ faults + fault <= MaxFaults
             /\ faults' = faults + fault
             /\ log' = Append(log, Invocation(s, f, FALSE, ok))
             /\ IF Raises(version, ok)
                THEN /\ files' = dir
                     /\ pc' = "abort"
                     /\ exitCode' = 1
                     /\ UNCHANGED <<matched, idx>>
                ELSE /\ files' = IF Unlink(s, version, ok, OutPath(s, f) \in dir,
                                           delete_intermediate)
                                 THEN dir \ {f} ELSE dir
                     /\ matched' = adv.list
                     /\ idx' = adv.i
                     /\ UNCHANGED <<pc, exitCode>>
  /\ UNCHANGED <<version, cfg, delete_intermediate, initFiles, snapshot, stage>>

Stage1Step == FileStep(1)

\* one iteration of the spiceinit loop: version 1 invokes with web=true at
\* once; versions 2 and 3 invoke locally and call try_spiceinit_with_web
\* when that returned False
Stage2Step ==
  /\ pc = "loop"
  /\ stage = 2
  /\ idx <= Len(matched)
  /\ LET f == matched[idx]
         adv == Advance(2, matched, idx, files)
     IN \E ok \in BOOLEAN, webOk \in BOOLEAN :
          LET fault == IF ok THEN 0 ELSE 1
          IN /\ (ok => webOk)
             /\ faults + fault <= MaxFaults
             /\ faults' = faults + fault
             /\ log' = log \o SpiceInvocations(version, f, ok, webOk)
             /\ IF Raises(version, ok)
                THEN /\ pc' = "abort"
                     /\ exitCode' = 1
                     /\ UNCHANGED <<matched, idx>>
                ELSE /\ matched' = adv.list
                     /\ idx' = adv.i
                     /\ UNCHANGED <<pc, exitCode>>
  /\ UNCHANGED <<version, cfg, delete_intermediate, files, initFiles, snapshot,
                 stage>>

Stage3Step == FileStep(3)

Stage4Step == FileStep(4)

Stage5Step == FileStep(5)

Stage6Step == FileStep(6)

Next ==
  \/ MainRejects
  \/ MainAccepts
  \/ BeginStage
  \/ Stage1Step
  \/ Stage2Step
  \/ Stage3Step
  \/ Stage4Step
  \/ Stage5Step
  \/ Stage6Step
  \/ EndStage

Spec == Init /\ [][Next]_vars

\* the same machine started in a directory of raw images only; the driver is
\* one sequential process, so it takes its next step whenever it has one
InitRaw ==
  /\ Init
  /\ \A f \in initFiles : Match("*.IMG", f)

FairSpec == InitRaw /\ [][Next]_vars /\ WF_vars(Next)

\* ------------------------------------------------------------- properties
Terminal == pc \in {"done", "exit", "abort"}

LastInv == log[Len(log)]

\* the step appended one invocation of stage s to the log
Invoked(s) == pc = "loop" /\ stage = s /\ Len(log') = Len(log) + 1

\* the from= files of the invocations of command c, in the order made
FromsOf(c) ==
  LET sel == SelectSeq(log, LAMBDA e : e.cmd = c)
  IN [i \in 1..Len(sel) |-> sel[i].from]

Ascending(seq) == \A i, j \in 1..Len(seq) : i < j => NameLess(seq[i], seq[j])

\* C1 (as claimed): with delete-intermediate=1, in stages 1, 3 and 5 the input
\* of an invocation is removed if and only if the command reported success and
\* the expected output exists after the invocation.
C1_RemovedIffSuccessAndOutput ==
  [][(\E s \in {1, 3, 5} : Invoked(s)) /\ delete_intermediate = 1
       => LET e == log'[Len(log')]
          IN (e.from \notin files') <=> (e.ok /\ e.to \in files')]_vars

\* C2: with delete-intermediate=0 no step of a run removes a file from the
\* directory, whatever the outcomes of the external commands.
C2_KeepFlagRemovesNothing ==
  [][pc # "main" /\ delete_intermediate = 0 => files \subseteq files']_vars

C2_Witness ==
  /\ pc = "done"
  /\ delete_intermediate = 0
  /\ faults > 0
  /\ initFiles \subseteq files
  /\ files # initFiles
  /\ \E i \in 1..Len(log) : log[i].cmd = "explode" /\ log[i].ok

\* C3 (as claimed): whatever command fails on whatever file, the run is never
\* aborted and ends with exit code 0.
C3_FailureNeverAborts ==
  (\E i \in 1..Len(log) : ~log[i].ok) => pc # "abort" /\ exitCode \in {-1, 0}

\* C3 (amended): in versions 2 and 3 a failed invocation lets the stage go on
\* to its next matched file and the run reaches the end of all six stages with
\* exit code 0; only version 1 aborts, at its first failed invocation, with
\* exit code 1.
C3_FailureContinuesFromV2 ==
  /\ [][version # 1 /\ Len(log') > Len(log) /\ ~log'[Len(log')].ok
          => pc' = "loop" /\ stage' = stage /\ idx' = idx + 1]_vars
  /\ [](pc = "abort" => version = 1 /\ exitCode = 1 /\ ~LastInv.ok)
  /\ [](version # 1 /\ pc \in {"glob", "loop"} => <>(pc = "done" /\ exitCode = 0))

C3_Witness ==
  /\ version # 1
  /\ pc = "done"
  /\ exitCode = 0
  /\ stage = 6
  /\ faults = MaxFaults
  /\ \E i \in 1..Len(log) : ~log[i].ok /\ i < Len(log)

\* C4: in the spiceinit stage a failed local invocation is followed at once by
\* exactly one web=true invocation for the same file, a successful one by
\* none, and after the fallback, whatever its result, the file is never
\* invoked again.
C4_OneWebFallback ==
  \A i \in 1..Len(log) :
    (log[i].cmd = "spiceinit" /\ ~log[i].web) =>
      /\ ~log[i].ok =>
           /\ i < Len(log)
           /\ log[i + 1].cmd = "spiceinit"
           /\ log[i + 1].web
           /\ log[i + 1].from = log[i].from
      /\ log[i].ok =>
           \A j \in 1..Len(log) :
             ~(log[j].cmd = "spiceinit" /\ log[j].web /\ log[j].from = log[i].from)
      /\ \A j \in (i + 1)..Len(log) :
           (log[j].cmd = "spiceinit" /\ log[j].from = log[i].from)
             => j = i + 1 /\ log[j].web /\ ~log[i].ok

C4_Witness ==
  \E i \in 1..Len(log) :
    /\ i + 3 <= Len(log)
    /\ log[i].cmd = "spiceinit" /\ ~log[i].web /\ ~log[i].ok
    /\ log[i + 1].cmd = "spiceinit" /\ log[i + 1].web /\ ~log[i + 1].ok
    /\ log[i + 1].from = log[i].from
    /\ log[i + 2].cmd = "spiceinit" /\ ~log[i + 2].web /\ log[i + 2].ok
    /\ log[i + 2].from # log[i].from
    /\ log[i + 3].cmd = "marcical"

\* a command line the validation has to turn down
ConfigInvalid(c) ==
  \/ c.opt = "none"
  \/ c.opt = "map" /\ ~c.mapIsFile
  \/ c.opt = "projection" /\ c.projection \notin PROJECTION_PRESETS
  \/ c.delete \notin {0, 1}

\* C5 (as claimed): every configuration failure ends the process with exit
\* code 1 before any stage: no invocation is made and no file is removed.
C5_ConfigFailureExitsOne ==
  (pc # "main" /\ ConfigInvalid(cfg)) =>
    /\ pc = "exit"
    /\ exitCode = 1
    /\ log = <<>>
    /\ initFiles \subseteq files

\* C6 (as claimed): once stage 1 is over, marci2isis has been invoked exactly
\* once for each *.IMG file of the directory, in ascending order of the names,
\* whatever the outcomes and the delete flag.
C6_OncePerImgInOrder ==
  (stage >= 2 \/ pc \in {"done", "abort"}) =>
    /\ {FromsOf("marci2isis")[i] : i \in 1..Len(FromsOf("marci2isis"))}
         = {f \in initFiles : Match("*.IMG", f)}
    /\ Ascending(FromsOf("marci2isis"))

\* C6 (amended): the marci2isis invocations are always made in ascending order
\* of the names, each for a *.IMG file of the directory and none twice; when
\* stage 1 is over they cover every *.IMG file.  Stage 1 is cut short only in
\* version 1, by the first invocation that fails.
C6_OncePerImgUnlessV1Aborts ==
  LET froms == FromsOf("marci2isis")
      imgs == {f \in initFiles : Match("*.IMG", f)}
      done1 == {froms[i] : i \in 1..Len(froms)}
  IN /\ Ascending(froms)
     /\ done1 \subseteq imgs
     /\ \A f \in imgs \ done1 : \A g \in done1 : NameLess(g, f)
     /\ (stage >= 2 \/ pc = "done") => done1 = imgs
     /\ (pc = "abort" /\ stage = 1) => version = 1 /\ ~LastInv.ok
     /\ (version # 1 /\ pc = "loop" /\ stage = 1) => Len(froms) = idx - 1

C6_Witness ==
  /\ version # 1
  /\ stage = 2
  /\ Len(FromsOf("marci2isis")) = 2
  /\ ~log[1].ok
  /\ log[2].ok
  /\ log[1].from = <<"A", ".IMG">>
  /\ log[2].from = <<"B", ".IMG">>

\* C7: with delete-intermediate=1, from a directory of *.IMG files only, when
\* every command succeeded and wrote its outputs, the finished run leaves no
\* .IMG file and no cube other than lev2 cubes, and every lev2 cube written by
\* cam2map and every PNG of isis2std is there.
C7_EndToEndLeavesFinalArtifacts ==
  (/\ pc = "done"
   /\ delete_intermediate = 1
   /\ faults = 0
   /\ \A f \in initFiles : Match("*.IMG", f)) =>
    /\ glob("*.IMG", files) = {}
    /\ glob("*.cub", files) = glob("*.lev2.cub", files)
    /\ glob("*.lev1.cub", files) = {}
    /\ glob("*.band*.cub", files) = {}
    /\ \A i \in 1..Len(log) :
         /\ log[i].cmd = "cam2map" => log[i].to \in files
         /\ log[i].cmd = "isis2std" => (log[i].to \o <<".png">>) \in files
    /\ Len(FromsOf("isis2std")) = MaxBands * Cardinality(initFiles)

C7_Witness ==
  /\ pc = "done"
  /\ delete_intermediate = 1
  /\ faults = 0
  /\ initFiles = {<<"A", ".IMG">>, <<"B", ".IMG">>}
  /\ <<"A", "1", ".lev2", ".cub">> \in files
  /\ <<"B", "1", ".png">> \in files

\* C8 (as claimed): in stage 4 the input is removed after every explode
\* invocation when delete-intermediate=1, and never when it is 0.
C8_ExplodeGatedOnFlagOnly ==
  [][Invoked(4)
       => LET e == log'[Len(log')]
          IN (e.from \notin files') <=> (delete_intermediate = 1)]_vars

\* C8 (amended): in stage 4 the input is removed exactly when
\* delete-intermediate=1 and the explode invocation reported success, whether
\* or not a band cube exists; it is kept after a failed invocation and
\* whenever delete-intermediate=0.
C8_ExplodeGatedOnFlagAndSuccess ==
  [][Invoked(4)
       => LET e == log'[Len(log')]
          IN (e.from \notin files') <=> (delete_intermediate = 1 /\ e.ok)]_vars

C8_Witness ==
  /\ log # <<>>
  /\ LastInv.cmd = "explode"
  /\ LastInv.ok
  /\ delete_intermediate = 1
  /\ LastInv.from \notin files
  /\ glob("*.band*.cub", files) = {}

\* C9 (as claimed): the spiceinit and marcical stages take stage-1 cubes only,
\* never a lev1, band or lev2 cube; explode takes calibration outputs only,
\* cam2map band cubes only, isis2std lev2 cubes only.
C9_StagesTakeOnlyPredecessorOutputs ==
  \A i \in 1..Len(log) :
    /\ log[i].cmd \in {"spiceinit", "marcical"} =>
         /\ ~Match("*.lev1.cub", log[i].from)
         /\ ~Match("*.band*.cub", log[i].from)
         /\ ~Match("*.lev2.cub", log[i].from)
    /\ log[i].cmd = "explode" => Match("*.lev1.cub", log[i].from)
    /\ log[i].cmd = "cam2map" => Match("*.band*.cub", log[i].from)
    /\ log[i].cmd = "isis2std" => Match("*.lev2.cub", log[i].from)

\* C10: a stage invokes its command only on files that were in the directory
\* when the stage began, at most once per file (spiceinit: at most once
\* locally and once with web=true), so a file written during the stage is not
\* taken by that stage even when it matches the stage's glob.
C10_StageWorksOnItsSnapshot ==
  /\ \A i, j \in 1..Len(log) :
       (i < j /\ log[i].cmd = log[j].cmd /\ log[i].web = log[j].web)
         => log[i].from # log[j].from
  /\ pc = "loop" =>
       LET mine == SelectSeq(log, LAMBDA e : e.cmd = StageCmd(stage))
       IN /\ \A i \in 1..Len(mine) :
               mine[i].from \in glob(StageGlob(stage), snapshot)
          /\ Len(mine) <= (IF stage = 2 THEN 2 ELSE 1)
                            * Cardinality(glob(StageGlob(stage), snapshot))

C10_Witness ==
  /\ pc = "loop"
  /\ stage = 3
  /\ idx > Len(matched)
  /\ Len(matched) > 0
  /\ \E f \in glob("*.cub", files) \ snapshot :
       \A i \in 1..Len(log) : log[i].from # f
====
